---- MODULE Spec2Model ----
(***************************************************************************)
(* A model of the SQL-AI engine: the SQL validator and cleaner of the SQL  *)
(* service, the query executor with its row limit and timeout race, the    *)
(* LRU schema cache with its time-to-live, the upload / delete routes that *)
(* change the table set, the retry loop of the Groq client, the schema     *)
(* introspection and the query history.  SQL text is a sequence of one-    *)
(* character strings, so that the regular expressions of the source are    *)
(* modelled character by character.                                        *)
(***************************************************************************)
EXTENDS Integers, Sequences, FiniteSets, TLC

VARIABLES
    sanIn,      \* the text handed to the validator / cleaner
    sanOp,      \* which entry point was applied to sanIn ("none" before)
    sanOut,     \* what the entry point produced
    dbType,     \* the backend of the connection handle
    call,       \* the service call in progress (executeSQL, getExplainPlan, queryFromQuestion)
    sent,       \* the db.asyncAll calls issued by the call in progress
    race,       \* the Promise.race of executeWithTimeout: database promise and timer
    outcome,    \* what the call delivered to its caller
    cache,      \* the LRU schema cache, least recently used entry first
    now,        \* the clock the cache reads
    lastGet,    \* the last read of the cache and what it returned
    tables,     \* the tables of the database
    up,         \* the upload or delete request in progress
    gen,        \* the generateSQL request in progress
    ai,         \* the callGroq call in progress and the attempts it has made
    intro,      \* the getSchema call in progress and the metadata queries it has issued
    history,    \* the in-memory query history, newest entry first
    rec         \* the recording of query outcomes: entries added, reads, recorder state

vars == <<sanIn, sanOp, sanOut, dbType, call, sent, race, outcome,
          cache, now, lastGet, tables, up, gen, ai, intro, history, rec>>

sanVars   == <<sanIn, sanOp, sanOut>>
execVars  == <<dbType, call, sent, race, outcome>>
cacheVars == <<cache, now, lastGet>>
upVars    == <<tables, up, gen>>
aiVars    == <<ai>>
introVars == <<intro>>
histVars  == <<history, rec>>

(***************************************************************************)
(* Characters and strings                                                  *)
(***************************************************************************)
\* the character U+0060, which a TLA+ string cannot hold
Backtick == "GRAVE"

LowerLetters == <<"a", "b", "c", "d", "e", "f", "g", "h", "i", "j", "k", "l", "m", "n", "o", "p", "q", "r", "s", "t", "u", "v", "w", "x", "y", "z">>
UpperLetters == <<"A", "B", "C", "D", "E", "F", "G", "H", "I", "J", "K", "L", "M", "N", "O", "P", "Q", "R", "S", "T", "U", "V", "W", "X", "Y", "Z">>
Digits == {"0", "1", "2", "3", "4", "5", "6", "7", "8", "9"}
DigitSeq == <<"0", "1", "2", "3", "4", "5", "6", "7", "8", "9">>

LowerSet == {LowerLetters[i] : i \in 1..26}
UpperSet == {UpperLetters[i] : i \in 1..26}

\* String.prototype.toUpperCase and the regular expressions' i flag, per character
UpperMap == [c \in LowerSet |-> UpperLetters[CHOOSE i \in 1..26 : LowerLetters[i] = c]]
UpChar(c) == IF c \in LowerSet THEN UpperMap[c] ELSE c
toUpperCase(s) == [i \in 1..Len(s) |-> UpChar(s[i])]

\* \w, \s and \d of the regular expressions
WordChars == LowerSet \cup UpperSet \cup Digits \cup {"_"}
SpaceChars == {" ", "\t", "\n", "\r"}
LineTerminators == {"\n", "\r"}
IsWordChar(c) == c \in WordChars
IsSpace(c) == c \in SpaceChars
IsDigit(c) == c \in Digits

RECURSIVE trimStart(_)
trimStart(s) == IF s # <<>> /\ IsSpace(Head(s)) THEN trimStart(Tail(s)) ELSE s
RECURSIVE trimEnd(_)
trimEnd(s) ==
    IF s # <<>> /\ IsSpace(s[Len(s)]) THEN trimEnd(SubSeq(s, 1, Len(s) - 1)) ELSE s
\* String.prototype.trim
trim(s) == trimEnd(trimStart(s))

startsWith(s, p) == Len(s) >= Len(p) /\ SubSeq(s, 1, Len(p)) = p
endsWith(s, p) == Len(s) >= Len(p) /\ SubSeq(s, Len(s) - Len(p) + 1, Len(s)) = p
DropFirst(s, n) == SubSeq(s, n + 1, Len(s))

\* w (upper case) occurs in s at index i, compared case-insensitively
MatchAtCI(s, i, w) ==
    /\ i >= 1
    /\ i + Len(w) - 1 <= Len(s)
    /\ \A j \in 1..Len(w) : UpChar(s[i + j - 1]) = w[j]

\* w occurs in s at index i, compared exactly
MatchAt(s, i, w) ==
    /\ i >= 1
    /\ i + Len(w) - 1 <= Len(s)
    /\ \A j \in 1..Len(w) : s[i + j - 1] = w[j]

\* \b at the position before index i: exactly one side is a word character
WordAt(s, i) == i >= 1 /\ i <= Len(s) /\ IsWordChar(s[i])
Boundary(s, i) == WordAt(s, i - 1) # WordAt(s, i)

\* the index of the first character at or after i that is not white space
RECURSIVE SkipSpaces(_, _)
SkipSpaces(s, i) == IF i <= Len(s) /\ IsSpace(s[i]) THEN SkipSpaces(s, i + 1) ELSE i

\* /\bW\b/i
HasWord(s, w) ==
    \E i \in 1..Len(s) :
        MatchAtCI(s, i, w) /\ Boundary(s, i) /\ Boundary(s, i + Len(w))

\* /\bV\s+W\b/i
HasPhrase(s, v, w) ==
    \E i \in 1..Len(s) :
        /\ MatchAtCI(s, i, v) /\ Boundary(s, i)
        /\ LET j == SkipSpaces(s, i + Len(v))
           IN  j > i + Len(v) /\ MatchAtCI(s, j, w) /\ Boundary(s, j + Len(w))

\* String.prototype.split(';'): the segments between the terminators
RECURSIVE split(_, _)
split(s, acc) ==
    IF s = <<>> THEN <<acc>>
    ELSE IF Head(s) = ";" THEN <<acc>> \o split(Tail(s), <<>>)
    ELSE split(Tail(s), Append(acc, Head(s)))

\* Number formatting of a template literal: the decimal digits of n
RECURSIVE NatToString(_)
NatToString(n) ==
    IF n < 10 THEN <<DigitSeq[n + 1]>>
    ELSE Append(NatToString(n \div 10), DigitSeq[(n % 10) + 1])

(***************************************************************************)
(* validateSQL                                                             *)
(***************************************************************************)
KwSELECT == <<"S", "E", "L", "E", "C", "T">>
KwWITH == <<"W", "I", "T", "H">>
KwINTO == <<"I", "N", "T", "O">>
KwOUTFILE == <<"O", "U", "T", "F", "I", "L", "E">>
KwDUMPFILE == <<"D", "U", "M", "P", "F", "I", "L", "E">>
KwLOAD_FILE == <<"L", "O", "A", "D", "_", "F", "I", "L", "E">>
KwUNION == <<"U", "N", "I", "O", "N">>
KwALL == <<"A", "L", "L">>
KwFROM == <<"F", "R", "O", "M">>
KwINFORMATION_SCHEMA == <<"I", "N", "F", "O", "R", "M", "A", "T", "I", "O", "N", "_", "S", "C", "H", "E", "M", "A">>
KwLIMIT == <<"L", "I", "M", "I", "T">>

\* /\b(INSERT|UPDATE|DELETE|DROP|TRUNCATE|ALTER|CREATE|GRANT|REVOKE)\b/i
ModifyingKeywords ==
    { <<"I", "N", "S", "E", "R", "T">>, <<"U", "P", "D", "A", "T", "E">>, <<"D", "E", "L", "E", "T", "E">>, <<"D", "R", "O", "P">>, <<"T", "R", "U", "N", "C", "A", "T", "E">>,
      <<"A", "L", "T", "E", "R">>, <<"C", "R", "E", "A", "T", "E">>, <<"G", "R", "A", "N", "T">>, <<"R", "E", "V", "O", "K", "E">> }
\* /\b(EXEC|EXECUTE|EVAL)\b/i
ExecKeywords == { <<"E", "X", "E", "C">>, <<"E", "X", "E", "C", "U", "T", "E">>, <<"E", "V", "A", "L">> }

\* /;\s*--/
CommentInjection(s) ==
    \E i \in 1..Len(s) :
        s[i] = ";" /\ MatchAt(s, SkipSpaces(s, i + 1), <<"-", "-">>)

\* /UNION\s+ALL\s+SELECT.*FROM\s+INFORMATION_SCHEMA/i ('.' matches no line terminator)
SchemaEnumeration(s) ==
    \E i \in 1..Len(s) :
        /\ MatchAtCI(s, i, KwUNION)
        /\ LET a == SkipSpaces(s, i + Len(KwUNION))
               b == SkipSpaces(s, a + Len(KwALL))
               e == b + Len(KwSELECT)
           IN  /\ a > i + Len(KwUNION) /\ MatchAtCI(s, a, KwALL)
               /\ b > a + Len(KwALL) /\ MatchAtCI(s, b, KwSELECT)
               /\ \E f \in e..Len(s) :
                    /\ \A k \in e..(f - 1) : s[k] \notin LineTerminators
                    /\ MatchAtCI(s, f, KwFROM)
                    /\ LET g == SkipSpaces(s, f + Len(KwFROM))
                       IN  g > f + Len(KwFROM) /\ MatchAtCI(s, g, KwINFORMATION_SCHEMA)

\* some pattern of DANGEROUS_PATTERNS matches
DANGEROUS_PATTERNS(s) ==
    \/ \E w \in ModifyingKeywords : HasWord(s, w)
    \/ \E w \in ExecKeywords : HasWord(s, w)
    \/ HasPhrase(s, KwINTO, KwOUTFILE)
    \/ HasPhrase(s, KwINTO, KwDUMPFILE)
    \/ HasWord(s, KwLOAD_FILE)
    \/ CommentInjection(s)
    \/ SchemaEnumeration(s)

\* sql.split(';').filter(s => s.trim().length > 0)
statements(s) == SelectSeq(split(s, <<>>), LAMBDA seg : trim(seg) # <<>>)

Accepted == "accepted"
ErrEmpty == "Empty SQL query"
ErrOnlySelect == "Only SELECT queries are allowed"
ErrDangerous == "Query contains potentially dangerous operations"
ErrMultiple == "Multiple SQL statements are not allowed"

\* the leading-keyword test of validateSQL
LeadingKeywordOK(s) ==
    LET trimmedSQL == toUpperCase(trim(s))
    IN  startsWith(trimmedSQL, KwSELECT) \/ startsWith(trimmedSQL, KwWITH)

\* the multiple-statement test of validateSQL
MultipleStatements(s) == Len(statements(s)) > 1

\* validateSQL with the statements counted before the patterns are tried
validateSQL_MultipleFirst(s) ==
    IF trim(s) = <<>> THEN ErrEmpty
    ELSE IF ~LeadingKeywordOK(s) THEN ErrOnlySelect
    ELSE IF MultipleStatements(s) THEN ErrMultiple
    ELSE IF DANGEROUS_PATTERNS(s) THEN ErrDangerous
    ELSE Accepted

\* validateSQL without its leading-keyword test
validateSQL_NoLeadingKeyword(s) ==
    IF trim(s) = <<>> THEN ErrEmpty
    ELSE IF DANGEROUS_PATTERNS(s) THEN ErrDangerous
    ELSE IF MultipleStatements(s) THEN ErrMultiple
    ELSE Accepted

\* validateSQL: Accepted when it returns true, else the message of the Error it throws
validateSQL(s) ==
    IF trim(s) = <<>> THEN ErrEmpty
    ELSE IF ~LeadingKeywordOK(s) THEN ErrOnlySelect
    ELSE IF DANGEROUS_PATTERNS(s) THEN ErrDangerous
    ELSE IF MultipleStatements(s) THEN ErrMultiple
    ELSE Accepted

(***************************************************************************)
(* cleanSQL                                                                *)
(***************************************************************************)
Fence == <<Backtick, Backtick, Backtick>>
FenceSql == <<Backtick, Backtick, Backtick, "S", "Q", "L">>
QuoteChars == {"\"", "'", Backtick}

\* cleaned.replace(/^```sql\s*/i, '')
StripFenceSql(s) ==
    IF MatchAtCI(s, 1, FenceSql)
    THEN DropFirst(s, SkipSpaces(s, Len(FenceSql) + 1) - 1)
    ELSE s

\* cleaned.replace(/^```\s*/i, '')
StripFenceOpen(s) ==
    IF MatchAt(s, 1, Fence)
    THEN DropFirst(s, SkipSpaces(s, Len(Fence) + 1) - 1)
    ELSE s

\* cleaned.replace(/\s*```$/i, ''): the closing fence and the white space before it
StripFenceClose(s) ==
    IF endsWith(s, Fence)
    THEN trimEnd(SubSeq(s, 1, Len(s) - Len(Fence)))
    ELSE s

RECURSIVE StripQuotesStart(_)
StripQuotesStart(s) ==
    IF s # <<>> /\ Head(s) \in QuoteChars THEN StripQuotesStart(Tail(s)) ELSE s
RECURSIVE StripQuotesEnd(_)
StripQuotesEnd(s) ==
    IF s # <<>> /\ s[Len(s)] \in QuoteChars
    THEN StripQuotesEnd(SubSeq(s, 1, Len(s) - 1))
    ELSE s
\* cleaned.replace(/^["'`]+|["'`]+$/g, '')
StripQuotes(s) == StripQuotesEnd(StripQuotesStart(s))

\* the terminator appended whether or not one is there
EnsureTerminator_Always(s) == Append(s, ";")

\* if (!cleaned.endsWith(';')) cleaned += ';'
EnsureTerminator(s) == IF endsWith(s, <<";">>) THEN s ELSE Append(s, ";")

cleanSQL(s) ==
    EnsureTerminator(StripQuotes(StripFenceClose(StripFenceOpen(StripFenceSql(trim(s))))))

(***************************************************************************)
(* The row limit of executeSQL                                             *)
(***************************************************************************)
\* /\bLIMIT\s+\d+/i.test(sql)
HasLimit(s) ==
    \E i \in 1..Len(s) :
        /\ MatchAtCI(s, i, KwLIMIT) /\ Boundary(s, i)
        /\ LET j == SkipSpaces(s, i + Len(KwLIMIT))
           IN  j > i + Len(KwLIMIT) /\ j <= Len(s) /\ IsDigit(s[j])

\* the suffix of s from index i matches /;?\s*$/
TerminatorTailAt(s, i) ==
    \/ SkipSpaces(s, i) = Len(s) + 1
    \/ i <= Len(s) /\ s[i] = ";" /\ SkipSpaces(s, i + 1) = Len(s) + 1

\* the index at which /;?\s*$/ first matches
TerminatorIndex(s) == CHOOSE i \in 1..(Len(s) + 1) :
    TerminatorTailAt(s, i) /\ \A j \in 1..(i - 1) : ~TerminatorTailAt(s, j)

\* sql.replace(/;?\s*$/, ` LIMIT ${maxRows};`)
InjectLimit(s, maxRows) ==
    SubSeq(s, 1, TerminatorIndex(s) - 1)
        \o <<" ", "L", "I", "M", "I", "T", " ">> \o NatToString(maxRows) \o <<";">>

\* limitedSQL of executeSQL
limitedSQL(s, maxRows) == IF HasLimit(s) THEN s ELSE InjectLimit(s, maxRows)

(***************************************************************************)
(* The idle values of the state                                            *)
(***************************************************************************)
NoOutput == [sql |-> <<>>, verdict |-> "none"]
IdleCall ==
    [fn |-> "none", sql |-> <<>>, pc |-> "idle", maxRows |-> 0, timeout |-> 0,
     validated |-> {}]
IdleRace ==
    [db |-> "none", timer |-> "unset", elapsed |-> 0, dbDuration |-> 0,
     deadline |-> 0, winner |-> "none"]
NoOutcome == [kind |-> "none", error |-> "none", rows |-> FALSE, limitApplied |-> FALSE]
NoGet ==
    [key |-> "none", found |-> FALSE, stored |-> {}, storedAt |-> 0,
     hit |-> FALSE, value |-> {}]
IdleUp ==
    [kind |-> "none", pc |-> "idle", table |-> "none", rows |-> 0,
     before |-> {}, cleared |-> FALSE, error |-> FALSE]
IdleGen == [pc |-> "idle", key |-> "none", schema |-> {}, failed |-> FALSE]
IdleAi ==
    [pc |-> "idle", attempt |-> 0, maxRetries |-> 0, log |-> <<>>, waits |-> <<>>,
     error |-> 0, sql |-> <<>>, verdict |-> "none"]
IdleIntro ==
    [pc |-> "idle", backend |-> "none", tables |-> <<>>, plan |-> <<>>,
     answered |-> {}, failed |-> {}, defaulted |-> {}]
IdleRec ==
    [added |-> 0, pc |-> "idle", primary |-> "none", delivered |-> "none",
     variant |-> "none", pending |-> FALSE, recorder |-> "none",
     read |-> <<>>, readRun |-> FALSE]

IdleSan ==
    /\ sanIn = <<>>
    /\ sanOp = "none"
    /\ sanOut = NoOutput

IdleExec ==
    /\ dbType = "sqlite"
    /\ call = IdleCall
    /\ sent = <<>>
    /\ race = IdleRace
    /\ outcome = NoOutcome

IdleCache ==
    /\ cache = <<>>
    /\ now = 0
    /\ lastGet = NoGet

IdleUpload ==
    /\ tables = {}
    /\ up = IdleUp
    /\ gen = IdleGen

IdleGroq == ai = IdleAi

IdleIntrospect == intro = IdleIntro

IdleHistory == history = <<>> /\ rec = IdleRec

\* what each part of the model leaves alone
SanFrame == UNCHANGED <<execVars, cacheVars, upVars, aiVars, introVars, histVars>>
ExecFrame == UNCHANGED <<sanVars, cacheVars, upVars, aiVars, introVars, histVars>>
CacheFrame == UNCHANGED <<sanVars, execVars, upVars, aiVars, introVars, histVars>>
UploadFrame == UNCHANGED <<sanVars, execVars, now, lastGet, aiVars, introVars, histVars>>
GroqFrame == UNCHANGED <<sanVars, execVars, cacheVars, upVars, introVars, histVars>>
IntrospectFrame == UNCHANGED <<sanVars, execVars, cacheVars, upVars, aiVars, histVars>>
HistoryFrame == UNCHANGED <<sanVars, execVars, cacheVars, upVars, aiVars, introVars>>

(***************************************************************************)
(* The inputs of the validator and the cleaner                             *)
(***************************************************************************)
MaxPad == 2      \* the longest run of white space the inputs put between two words

Pad(n) == [i \in 1..n |-> " "]

\* the scenarios of the specification, as written there
ScenarioMulti == <<"S", "E", "L", "E", "C", "T", " ", "*", " ", "F", "R", "O", "M", " ", "O", "r", "d", "e", "r", "s", ";", " ", "D", "R", "O", "P", " ", "T", "A", "B", "L", "E", " ", "O", "r", "d", "e", "r", "s", ";">>
ScenarioFenced == <<Backtick, Backtick, Backtick, "s", "q", "l", "\n", "S", "E", "L", "E", "C", "T", " ", "N", "a", "m", "e", " ", "F", "R", "O", "M", " ", "C", "u", "s", "t", "o", "m", "e", "r", "s", "\n", Backtick, Backtick, Backtick>>
ScenarioCommentary == <<"S", "u", "r", "e", "!", " ", "S", "E", "L", "E", "C", "T", " ", "T", "O", "P", " ", "5", " ", "*", " ", "F", "R", "O", "M", " ", "P", "r", "o", "d", "u", "c", "t", "s">>
ScenarioCommentaryStripped == <<"S", "E", "L", "E", "C", "T", " ", "T", "O", "P", " ", "5", " ", "*", " ", "F", "R", "O", "M", " ", "P", "r", "o", "d", "u", "c", "t", "s", ";">>
ScenarioNoLimit == <<"S", "E", "L", "E", "C", "T", " ", "P", "r", "o", "d", "u", "c", "t", "N", "a", "m", "e", " ", "F", "R", "O", "M", " ", "P", "r", "o", "d", "u", "c", "t", "s", " ", "O", "R", "D", "E", "R", " ", "B", "Y", " ", "U", "n", "i", "t", "P", "r", "i", "c", "e", " ", "D", "E", "S", "C">>
Scenarios == {ScenarioMulti, ScenarioFenced, ScenarioCommentary, ScenarioNoLimit}

\* what precedes the word under test
SanPrefixes ==
    { <<>>, <<"S", "E", "L", "E", "C", "T", " ", "a">>, <<"s", "e", "l", "e", "c", "t", " ", "a", ",">>, <<"W", "i", "t", "h", " ", "c">>, <<"S", "u", "r", "e", "!", " ", "S", "E", "L", "E", "C", "T", " ", "a">>, <<"x">>, <<"'">> }

\* the words under test: the blocked keywords in two letter cases, and harmless words
LowerKeywords ==
    { <<"i", "n", "s", "e", "r", "t">>, <<"U", "p", "d", "a", "t", "e">>, <<"d", "e", "l", "e", "t", "e">>, <<"d", "r", "o", "p">>, <<"t", "r", "u", "n", "c", "a", "t", "e">>, <<"a", "l", "t", "e", "r">>,
      <<"c", "r", "e", "a", "t", "e">>, <<"g", "r", "a", "n", "t">>, <<"R", "e", "v", "o", "k", "e">>, <<"e", "x", "e", "c">>, <<"e", "x", "e", "c", "u", "t", "e">>, <<"e", "v", "a", "l">>,
      <<"l", "o", "a", "d", "_", "f", "i", "l", "e">> }
SanWords ==
    ModifyingKeywords \cup ExecKeywords \cup {KwLOAD_FILE} \cup LowerKeywords
        \cup { <<>>, <<"b">>, <<"F", "R", "O", "M", " ", "t">>, <<"d", "r", "o", "p", "p", "e", "d">>, <<"I", "N", "T", "O">>, <<"o", "u", "t", "f", "i", "l", "e">> }

\* what follows the word under test
SanSuffixes ==
    { <<>>, <<";">>, <<" ", "F", "R", "O", "M", " ", "t">>, <<"_", "c", "o", "u", "n", "t">>, <<";", " ", "S", "E", "L", "E", "C", "T", " ", "1">>, <<" ", ";", "-", "-", " ", "x">>, <<"'">> }

KeywordInputs ==
    { p \o Pad(n) \o w \o s :
        p \in SanPrefixes, n \in 0..MaxPad, w \in SanWords, s \in SanSuffixes }

\* the phrases INTO OUTFILE and INTO DUMPFILE, with every amount of white space between
PhraseInputs ==
    { p \o <<" ", "i", "n", "t", "o">> \o Pad(n) \o w \o s :
        p \in {<<>>, <<"S", "E", "L", "E", "C", "T", " ", "a">>}, n \in 0..MaxPad,
        w \in {KwOUTFILE, KwDUMPFILE, <<"d", "u", "m", "p", "f", "i", "l", "e">>, <<"O", "U", "T", "F", "I", "L", "E", "S">>},
        s \in {<<>>, <<" ", "'", "f", "'">>} }

\* statements whose first word is, or merely begins with, SELECT or WITH
TokenInputs ==
    { p \o w \o s :
        p \in {<<>>, <<" ">>},
        w \in { <<"S", "E", "L", "E", "C", "T">>, <<"s", "e", "l", "e", "c", "t">>, <<"S", "E", "L", "E", "C", "T", "E", "D">>, <<"s", "e", "l", "e", "c", "t", "e", "d">>, <<"S", "e", "l", "e", "c", "t", "i", "o", "n">>,
                <<"W", "I", "T", "H">>, <<"w", "i", "t", "h">>, <<"W", "I", "T", "H", "O", "U", "T">>, <<"W", "i", "t", "h", "i", "n">>, <<"S", "E", "L", "E", "C", "T", "*">> },
        s \in {<<>>, <<" ", "x">>, <<" ", "a", " ", "F", "R", "O", "M", " ", "t", ";">>} }

\* UNION ALL SELECT followed by a reference to INFORMATION_SCHEMA, in two letter cases,
\* with blanks and line breaks between the words
Gaps == { <<" ">>, <<"\n">> } \cup { Pad(n) : n \in 2..MaxPad }
UnionInputs ==
    { <<"S", "E", "L", "E", "C", "T", " ", "a", " ">> \o u \o g1 \o <<"A", "L", "L">> \o g2 \o <<"S", "E", "L", "E", "C", "T", " ", "b">> \o g3 \o f \o g4 \o i \o <<".", "t", "a", "b", "l", "e", "s">> :
        u \in {<<"U", "N", "I", "O", "N">>, <<"u", "n", "i", "o", "n">>}, g1 \in Gaps, g2 \in {<<" ">>, <<"\n">>},
        g3 \in {<<" ">>, <<"\n">>, <<" ", ",", " ", "c", "\n">>}, f \in {<<"F", "R", "O", "M">>, <<"f", "r", "o", "m">>},
        g4 \in {<<" ">>, <<"\n">>},
        i \in {<<"I", "N", "F", "O", "R", "M", "A", "T", "I", "O", "N", "_", "S", "C", "H", "E", "M", "A">>, <<"i", "n", "f", "o", "r", "m", "a", "t", "i", "o", "n", "_", "s", "c", "h", "e", "m", "a">>, <<"i", "n", "v", "e", "n", "t", "o", "r", "y">>} }

\* statements as the AI collaborator words them
CleanStatements ==
    { <<"S", "E", "L", "E", "C", "T", " ", "N", "a", "m", "e", " ", "F", "R", "O", "M", " ", "C", "u", "s", "t", "o", "m", "e", "r", "s">>, <<"S", "E", "L", "E", "C", "T", " ", "a", ";">>, <<"S", "E", "L", "E", "C", "T", " ", "a", ";", ";">>, <<"S", "E", "L", "E", "C", "T", " ", "a", " ", ";">>,
      <<"S", "E", "L", "E", "C", "T", " ", "'", "a", "'">>, <<"S", "E", "L", "E", "C", "T", " ", "a", " ", "F", "R", "O", "M", " ", "t", " ", "W", "H", "E", "R", "E", " ", "n", " ", "=", " ", "'", "B", "o", "b", "'">>, <<"S", "E", "L", "E", "C", "T", " ", "\"", "n", "\"", " ", "F", "R", "O", "M", " ", "t">>,
      <<"S", "E", "L", "E", "C", "T", " ", "a", " ", "F", "R", "O", "M", " ", Backtick, "t", Backtick>>, <<"S", "E", "L", "E", "C", "T", " ", "a", " ", "F", "R", "O", "M", " ", "t", ";">>, <<"W", "i", "t", "h", " ", "c", " ", "A", "S", " ", "(", "S", "E", "L", "E", "C", "T", " ", "1", ")", " ", "S", "E", "L", "E", "C", "T", " ", "2", ";">> }

\* the statements bare, inside code fences, and inside quote characters
CleanInputs ==
    { l \o open \o S \o close \o t :
        l \in {<<>>, <<" ">>},
        open \in {<<>>, <<Backtick, Backtick, Backtick, "s", "q", "l", "\n">>, <<Backtick, Backtick, Backtick, "S", "Q", "L", " ">>, <<Backtick, Backtick, Backtick, "\n">>, <<"\"">>},
        S \in CleanStatements,
        close \in {<<>>, <<"\n", Backtick, Backtick, Backtick>>, <<Backtick, Backtick, Backtick>>, <<"\"">>},
        t \in {<<>>, <<"\n">>} }

SanInputs ==
    Scenarios \cup KeywordInputs \cup PhraseInputs \cup TokenInputs \cup UnionInputs
        \cup CleanInputs

(***************************************************************************)
(* The validator and the cleaner applied to one input                      *)
(***************************************************************************)
\* validateSQL(sql), called on its own
SanValidate ==
    /\ sanOp = "none"
    /\ sanOp' = "validateSQL"
    /\ sanOut' = [sql |-> sanIn, verdict |-> validateSQL(sanIn)]
    /\ UNCHANGED sanIn
    /\ SanFrame

\* cleanSQL(sql), called on its own
SanClean ==
    /\ sanOp = "none"
    /\ sanOp' = "cleanSQL"
    /\ sanOut' = [sql |-> cleanSQL(sanIn), verdict |-> "none"]
    /\ UNCHANGED sanIn
    /\ SanFrame

\* generateSQL once the AI has answered rawSQL: cleanSQL, then validateSQL
SanGenerate ==
    /\ sanOp = "none"
    /\ sanOp' = "generateSQL"
    /\ LET sql == cleanSQL(sanIn)
       IN  sanOut' = [sql |-> sql, verdict |-> validateSQL(sql)]
    /\ UNCHANGED sanIn
    /\ SanFrame

\* the next text arrives
SanNext ==
    /\ sanOp # "none"
    /\ sanIn' \in Scenarios
    /\ sanOp' = "none"
    /\ sanOut' = NoOutput
    /\ SanFrame

InitSan ==
    /\ sanIn \in SanInputs
    /\ sanOp = "none"
    /\ sanOut = NoOutput
    /\ IdleExec
    /\ IdleCache
    /\ IdleUpload
    /\ IdleGroq
    /\ IdleIntrospect
    /\ IdleHistory

NextSan ==
    \/ SanValidate
    \/ SanClean
    \/ SanGenerate
    \/ SanNext

SpecSan == InitSan /\ [][NextSan]_vars

(***************************************************************************)
(* Claims about validateSQL and the generation pipeline                    *)
(***************************************************************************)
\* w (upper case) is a whole word of s, whatever the letter case of s
OccursAsWord(s, w) ==
    \E i \in 1..Len(s) :
        /\ i + Len(w) - 1 <= Len(s)
        /\ toUpperCase(SubSeq(s, i, i + Len(w) - 1)) = w
        /\ (i = 1 \/ s[i - 1] \notin WordChars)
        /\ (i + Len(w) > Len(s) \/ s[i + Len(w)] \notin WordChars)

\* the words v and w follow each other in s, separated by white space only
OccursAsPhrase(s, v, w) ==
    \E i \in 1..Len(s), n \in 1..Len(s) :
        /\ i + Len(v) + n + Len(w) - 1 <= Len(s)
        /\ toUpperCase(SubSeq(s, i, i + Len(v) - 1)) = v
        /\ (i = 1 \/ s[i - 1] \notin WordChars)
        /\ \A k \in (i + Len(v))..(i + Len(v) + n - 1) : s[k] \in SpaceChars
        /\ toUpperCase(SubSeq(s, i + Len(v) + n, i + Len(v) + n + Len(w) - 1)) = w
        /\ (i + Len(v) + n + Len(w) > Len(s) \/ s[i + Len(v) + n + Len(w)] \notin WordChars)

BlockedWords == ModifyingKeywords \cup ExecKeywords \cup {KwLOAD_FILE}

ContainsBlocked(s) ==
    \/ \E w \in BlockedWords : OccursAsWord(s, w)
    \/ OccursAsPhrase(s, KwINTO, KwOUTFILE)
    \/ OccursAsPhrase(s, KwINTO, KwDUMPFILE)

\* w (upper case) occurs somewhere in s, whatever the letter case of s
ContainsText(s, w) ==
    \E i \in 1..Len(s) :
        i + Len(w) - 1 <= Len(s) /\ toUpperCase(SubSeq(s, i, i + Len(w) - 1)) = w

ContainsAnchor(s) == ContainsText(s, KwSELECT) \/ ContainsText(s, KwWITH)

\* the first characters of s other than white space spell SELECT or WITH
BeginsWithAnchor(s) ==
    \E i \in 1..Len(s) :
        /\ \A k \in 1..(i - 1) : s[k] \in SpaceChars
        /\ \E w \in {KwSELECT, KwWITH} :
            i + Len(w) - 1 <= Len(s) /\ toUpperCase(SubSeq(s, i, i + Len(w) - 1)) = w

IsBlank(s) == \A k \in 1..Len(s) : s[k] \in SpaceChars

\* C1 as stated: every input that holds a blocked keyword as a whole word (or one of
\* the blocked phrases) is rejected by validateSQL with the reason of the
\* read-only enforcement, the dangerous-operations message.
C1_BlockedRejectedAsDangerous ==
    (sanOp = "validateSQL" /\ ContainsBlocked(sanIn))
        => sanOut.verdict = ErrDangerous

\* C1 amended: every input that holds a blocked keyword as a whole word (or one of the
\* blocked phrases) is rejected by validateSQL; the reason is the dangerous-operations
\* message when the input begins with SELECT or WITH, and the leading-keyword
\* message "Only SELECT queries are allowed" when it does not.
C1_BlockedRejected ==
    (sanOp = "validateSQL" /\ ContainsBlocked(sanIn))
        => sanOut.verdict =
              IF BeginsWithAnchor(sanIn) THEN ErrDangerous ELSE ErrOnlySelect

C1_Witness ==
    /\ sanOp = "validateSQL"
    /\ ContainsBlocked(sanIn)
    /\ BeginsWithAnchor(sanIn)
    /\ Len(statements(sanIn)) > 1
    /\ sanOut.verdict = ErrDangerous

C10_CommentaryDiscarded ==
    /\ (sanOp = "generateSQL" /\ ContainsAnchor(sanIn))
          => BeginsWithAnchor(sanOut.sql)
    /\ (sanOp = "generateSQL" /\ sanIn = ScenarioCommentary)
          => (sanOut.sql = ScenarioCommentaryStripped /\ sanOut.verdict = Accepted)

(***************************************************************************)
(* The query executor: executeSQL, getExplainPlan, queryFromQuestion and   *)
(* the Promise.race of executeWithTimeout                                  *)
(***************************************************************************)
MaxTimeout == 2          \* the largest configured timeout, in clock ticks
DefaultMaxRows == 1000   \* maxRows when neither the options nor the environment set it

Backends == {"sqlite", "mysql", "postgres"}
RowLimits == {DefaultMaxRows, 50}
Timeouts == 1..MaxTimeout
Durations == 0..(MaxTimeout + 1)    \* how long a database call may take

ErrTimeout == "Query timed out"
ErrDatabase == "database error"
ErrGeneration == "generation failed"

\* the statements the callers hand to executeSQL and getExplainPlan
ExecStatements ==
    { <<"S", "E", "L", "E", "C", "T", " ", "a">>, <<"s", "e", "l", "e", "c", "t", " ", "a", " ", "l", "i", "m", "i", "t", " ", "5">>, <<"S", "E", "L", "E", "C", "T", " ", "a", " ", "L", "I", "M", "I", "T", " ", " ", "1", "0">>,
      <<"S", "E", "L", "E", "C", "T", " ", "'", "L", "I", "M", "I", "T", " ", "1", "'">>, <<"W", "I", "T", "H", " ", "c", " ", "A", "S", " ", "(", "S", "E", "L", "E", "C", "T", " ", "1", ")", " ", "S", "E", "L", "E", "C", "T", " ", "a">>, <<" ", "S", "E", "L", "E", "C", "T", " ", "a">>,
      <<"S", "E", "L", "E", "C", "T", " ", "a", " ", "L", "I", "M", "I", "T", " ", "5", "0", "0", "0">>, <<"S", "E", "L", "E", "C", "T", " ", "a", " ", "F", "R", "O", "M", " ", "(", "S", "E", "L", "E", "C", "T", " ", "b", " ", "L", "I", "M", "I", "T", " ", "5", ")", " ", "t">>,
      <<"D", "R", "O", "P", " ", "T", "A", "B", "L", "E", " ", "t">>, <<"S", "E", "L", "E", "C", "T", " ", "a", ";", " ", "S", "E", "L", "E", "C", "T", " ", "b">>, <<"S", "E", "L", "E", "C", "T", " ", "a", ";", "D", "E", "L", "E", "T", "E", " ", "F", "R", "O", "M", " ", "t">>,
      ScenarioNoLimit, ScenarioMulti }
ExecTails ==
    {<<>>, <<";", ";">>}
        \cup {Pad(n) : n \in 1..MaxPad}
        \cup {<<";">> \o Pad(n) : n \in 0..MaxPad}
        \cup {Pad(n) \o <<";">> : n \in 1..MaxPad}
        \cup {<<";">> \o Pad(n) \o <<";">> : n \in 1..MaxPad}
ExecInputs == {s \o t : s \in ExecStatements, t \in ExecTails} \cup {<<>>}

\* the raw answers of the AI collaborator
RawAnswers ==
    { ScenarioFenced, ScenarioCommentary, ScenarioNoLimit, ScenarioMulti,
      <<"S", "E", "L", "E", "C", "T", " ", "a", " ", "L", "I", "M", "I", "T", " ", "5", ";">>, <<"'", "S", "E", "L", "E", "C", "T", " ", "a", "'">>, <<"D", "R", "O", "P", " ", "T", "A", "B", "L", "E", " ", "t">> }

\* the statement prefixes of getExplainPlan
ExplainPrefix(type) ==
    CASE type = "sqlite" -> <<"E", "X", "P", "L", "A", "I", "N", " ", "Q", "U", "E", "R", "Y", " ", "P", "L", "A", "N", " ">>
      [] type = "mysql" -> <<"E", "X", "P", "L", "A", "I", "N", " ">>
      [] type = "postgres" -> <<"E", "X", "P", "L", "A", "I", "N", " ", "(", "F", "O", "R", "M", "A", "T", " ", "J", "S", "O", "N", ")", " ">>

\* db.asyncAll of the SQLite handle runs the statement before it returns; the
\* handles of MySQL and PostgreSQL return a pending promise
SynchronousHandle(type) == type = "sqlite"

\* executeSQL without its call of validateSQL
executeSQLValidate_Skipped(s) == Accepted

\* validateSQL(sql) as called by executeSQL before anything else
executeSQLValidate(s) == validateSQL(s)

Statement(kind, text, src) == [kind |-> kind, text |-> text, src |-> src]

\* a catch block that calls executeWithTimeout again for the failed statement
executeSQLCatch_Retry(error) == "retry"

\* the catch block of executeSQL: it logs the error and rethrows it
executeSQLCatch(error) == "throw"

\* a race that is settled again by every promise that settles
promiseRace_LastSettled(winner, settler) == settler

\* Promise.race([db.asyncAll(...), timer]): the promise that settles first settles
\* the race, and a race that is settled stays as it is
promiseRace(winner, settler) == IF winner = "none" THEN settler ELSE winner

\* the statements sent once executeSQL has dealt with the failure of statement st
AfterFailure(st, error) ==
    IF executeSQLCatch(error) = "throw" THEN <<>> ELSE <<st>>

\* executeSQL(sql, db, options) up to its await: validateSQL, the row limit, and
\* executeWithTimeout, which calls db.asyncAll and then arms the timer.  A synchronous
\* handle has run the statement, for some duration d, before the timer is armed.
executeSQL(fn, s, maxRows, timeout, accepted) ==
    LET verdict == executeSQLValidate(s)
        limited == limitedSQL(s, maxRows)
        statement == Statement("statement", limited, s)
        started == [fn |-> fn, sql |-> s, maxRows |-> maxRows, timeout |-> timeout,
                    validated |-> accepted \cup (IF verdict = Accepted THEN {s} ELSE {}),
                    pc |-> "executing"]
    IN  IF verdict # Accepted
        THEN /\ call' = [started EXCEPT !.pc = "done"]
             /\ outcome' = [NoOutcome EXCEPT !.kind = "error", !.error = verdict]
             /\ UNCHANGED <<sent, race>>
        ELSE IF SynchronousHandle(dbType)
             THEN \E d \in Durations, ok \in BOOLEAN :
                  IF ok
                  THEN /\ sent' = Append(sent, statement)
                       /\ race' = [db |-> "resolved", timer |-> "armed", elapsed |-> d,
                                   dbDuration |-> d, deadline |-> d + timeout,
                                   winner |-> promiseRace("none", "db")]
                       /\ call' = [started EXCEPT !.pc = "done"]
                       /\ outcome' = [kind |-> "result", error |-> "none", rows |-> TRUE,
                                      limitApplied |-> (limited # s)]
                  ELSE /\ sent' = Append(sent, statement)
                                    \o AfterFailure(statement, ErrDatabase)
                       /\ race' = [IdleRace EXCEPT !.db = "rejected", !.elapsed = d,
                                                   !.dbDuration = d]
                       /\ call' = [started EXCEPT !.pc = "done"]
                       /\ outcome' = [NoOutcome EXCEPT !.kind = "error",
                                                       !.error = ErrDatabase]
             ELSE /\ sent' = Append(sent, statement)
                  /\ race' = [db |-> "pending", timer |-> "armed", elapsed |-> 0,
                              dbDuration |-> 0, deadline |-> timeout, winner |-> "none"]
                  /\ call' = started
                  /\ outcome' = NoOutcome

\* POST /api/execute: executeSQL(sql, db) on the statement of the caller
ExecuteSQLCall ==
    /\ call.pc = "idle"
    /\ \E s \in ExecInputs, maxRows \in RowLimits, timeout \in Timeouts :
          executeSQL("executeSQL", s, maxRows, timeout, {})
    /\ UNCHANGED dbType
    /\ ExecFrame

\* POST /api/explain: getExplainPlan(sql, db, dbType)
GetExplainPlanCall ==
    /\ call.pc = "idle"
    /\ \E s \in ExecInputs :
         LET verdict == validateSQL(s)
             started == [IdleCall EXCEPT !.fn = "getExplainPlan", !.sql = s,
                            !.validated = IF verdict = Accepted THEN {s} ELSE {}]
         IN  IF verdict # Accepted
             THEN /\ call' = [started EXCEPT !.pc = "done"]
                  /\ outcome' = [NoOutcome EXCEPT !.kind = "error", !.error = verdict]
                  /\ UNCHANGED <<sent, race>>
             ELSE /\ sent' = Append(sent, Statement("explain", ExplainPrefix(dbType) \o s, s))
                  /\ IF SynchronousHandle(dbType)
                     THEN \E d \in Durations, ok \in BOOLEAN :
                          /\ race' = [IdleRace EXCEPT
                                        !.db = IF ok THEN "resolved" ELSE "rejected",
                                        !.elapsed = d, !.dbDuration = d]
                          /\ call' = [started EXCEPT !.pc = "done"]
                          /\ outcome' = IF ok
                                THEN [NoOutcome EXCEPT !.kind = "result", !.rows = TRUE]
                                ELSE [NoOutcome EXCEPT !.kind = "error", !.error = ErrDatabase]
                     ELSE /\ race' = [IdleRace EXCEPT !.db = "pending"]
                          /\ call' = [started EXCEPT !.pc = "explaining"]
                          /\ outcome' = NoOutcome
    /\ UNCHANGED dbType
    /\ ExecFrame

\* POST /api/query: queryFromQuestion calls generateSQL and awaits it
QueryFromQuestionCall ==
    /\ call.pc = "idle"
    /\ call' = [IdleCall EXCEPT !.fn = "queryFromQuestion", !.pc = "generating"]
    /\ UNCHANGED <<dbType, sent, race, outcome>>
    /\ ExecFrame

\* generateSQL on a cache miss: getSchema sends its metadata queries to the database
GenerateIntrospect ==
    /\ call.pc = "generating"
    /\ sent = <<>>
    /\ sent' = Append(sent, Statement("metadata", <<>>, <<>>))
    /\ UNCHANGED <<dbType, call, race, outcome>>
    /\ ExecFrame

\* generateSQL fails (introspection or the AI collaborator): queryFromQuestion rethrows
GenerateFail ==
    /\ call.pc = "generating"
    /\ call' = [call EXCEPT !.pc = "done"]
    /\ outcome' = [NoOutcome EXCEPT !.kind = "error", !.error = ErrGeneration]
    /\ UNCHANGED <<dbType, sent, race>>
    /\ ExecFrame

\* the AI collaborator answers: generateSQL cleans and validates the answer, and
\* queryFromQuestion hands generation.sql to executeSQL
GenerateAnswer ==
    /\ call.pc = "generating"
    /\ \E raw \in RawAnswers, maxRows \in RowLimits, timeout \in Timeouts :
         LET sql == cleanSQL(raw)
             verdict == validateSQL(sql)
         IN  IF verdict # Accepted
             THEN /\ call' = [call EXCEPT !.pc = "done", !.sql = sql]
                  /\ outcome' = [NoOutcome EXCEPT !.kind = "error", !.error = verdict]
                  /\ UNCHANGED <<sent, race>>
             ELSE executeSQL("queryFromQuestion", sql, maxRows, timeout, {sql})
    /\ UNCHANGED dbType
    /\ ExecFrame

\* the promise of db.asyncAll settles (MySQL, PostgreSQL); Promise.race takes it if
\* the timer has not fired, and the awaiting function resumes: executeSQL returns the
\* rows, or its catch block runs
DbSettle ==
    /\ race.db = "pending"
    /\ \E ok \in BOOLEAN :
         LET winner == promiseRace(race.winner, "db")
         IN  /\ race' = [race EXCEPT !.db = IF ok THEN "resolved" ELSE "rejected",
                                     !.dbDuration = race.elapsed,
                                     !.winner = winner]
             /\ IF winner # race.winner
                THEN /\ call' = [call EXCEPT !.pc = "done"]
                     /\ outcome' =
                           IF ok
                           THEN [kind |-> "result", error |-> "none", rows |-> TRUE,
                                 limitApplied |-> /\ call.pc = "executing"
                                                  /\ sent[Len(sent)].text # call.sql]
                           ELSE [NoOutcome EXCEPT !.kind = "error", !.error = ErrDatabase]
                     /\ sent' = IF ok \/ call.pc # "executing"
                                THEN sent
                                ELSE sent \o AfterFailure(sent[Len(sent)], ErrDatabase)
                ELSE UNCHANGED <<call, outcome, sent>>
    /\ UNCHANGED dbType
    /\ ExecFrame

\* the timer of executeWithTimeout fires; Promise.race takes its rejection if the
\* database promise has not settled, and the catch block of executeSQL runs
TimerFire ==
    /\ race.timer = "armed"
    /\ race.elapsed >= race.deadline
    /\ LET winner == promiseRace(race.winner, "timer")
       IN  /\ race' = [race EXCEPT !.timer = "fired", !.winner = winner]
           /\ IF winner # race.winner
              THEN /\ call' = [call EXCEPT !.pc = "done"]
                   /\ outcome' = [NoOutcome EXCEPT !.kind = "error", !.error = ErrTimeout]
                   /\ sent' = sent \o AfterFailure(sent[Len(sent)], ErrTimeout)
              ELSE UNCHANGED <<call, outcome, sent>>
    /\ UNCHANGED dbType
    /\ ExecFrame

\* time passes; a timer that is due fires before more time passes
ExecTick ==
    /\ race.db = "pending" \/ race.timer = "armed"
    /\ race.elapsed < MaxTimeout + 1
    /\ ~(race.timer = "armed" /\ race.elapsed >= race.deadline)
    /\ race' = [race EXCEPT !.elapsed = @ + 1]
    /\ UNCHANGED <<dbType, call, sent, outcome>>
    /\ ExecFrame

\* the call has answered and the next request arrives
ExecReset ==
    /\ call.pc = "done"
    /\ race.db # "pending"
    /\ call' = IdleCall
    /\ sent' = <<>>
    /\ race' = IdleRace
    /\ outcome' = NoOutcome
    /\ UNCHANGED dbType
    /\ ExecFrame

InitExec ==
    /\ dbType \in Backends
    /\ call = IdleCall
    /\ sent = <<>>
    /\ race = IdleRace
    /\ outcome = NoOutcome
    /\ IdleSan
    /\ IdleCache
    /\ IdleUpload
    /\ IdleGroq
    /\ IdleIntrospect
    /\ IdleHistory

NextExec ==
    \/ ExecuteSQLCall
    \/ GetExplainPlanCall
    \/ QueryFromQuestionCall
    \/ GenerateIntrospect
    \/ GenerateFail
    \/ GenerateAnswer
    \/ DbSettle
    \/ TimerFire
    \/ ExecTick
    \/ ExecReset

SpecExec == InitExec /\ [][NextExec]_vars

(***************************************************************************)
(* Claims about the query executor                                         *)
(***************************************************************************)
\* the number of ';'-separated segments of s that hold more than white space
SegmentCount(s) ==
    Cardinality({ i \in 1..Len(s) :
        /\ s[i] # ";" /\ s[i] \notin SpaceChars
        /\ \A k \in 1..(i - 1) :
              (\A j \in k..(i - 1) : s[j] # ";") => s[k] \in SpaceChars })

\* the statements of the callers that were sent to the database
SentStatements == {i \in DOMAIN sent : sent[i].kind # "metadata"}

\* C2: validateSQL rejects every input with more than one non-empty ';'-separated
\* segment, so no text that executeSQL sends to the database holds more than one
\* such segment.
C2_NeverSendsBatch ==
    /\ (call.fn = "executeSQL" /\ call.pc # "idle" /\ SegmentCount(call.sql) > 1)
          => (outcome.kind = "error" /\ sent = <<>>)
    /\ \A i \in SentStatements :
          sent[i].kind = "statement" => SegmentCount(sent[i].text) <= 1

\* C3: on every execution path (executeSQL on the statement of a caller, executeSQL
\* after generation inside queryFromQuestion, getExplainPlan) a statement reaches the
\* database only after validateSQL has accepted it in that same call, and nothing is
\* sent for a statement that validateSQL rejects.
C3_ValidatedBeforeDatabase ==
    /\ \A i \in SentStatements :
          /\ validateSQL(sent[i].src) = Accepted
          /\ sent[i].src \in call.validated
          /\ sent[i].src = call.sql
    /\ (call.pc = "done" /\ validateSQL(call.sql) # Accepted /\ call.fn # "none")
          => (SentStatements = {} /\ outcome.kind = "error")

C3_Witness ==
    /\ call.fn = "queryFromQuestion"
    /\ call.pc = "done"
    /\ outcome.kind = "result"
    /\ Len(sent) = 2
    /\ sent[1].kind = "metadata"
    /\ sent[2].kind = "statement"

\* s declares a row limit: the word LIMIT, white space, a digit
DeclaresLimit(s) ==
    \E i \in 1..Len(s), n \in 1..Len(s) :
        /\ i + 4 + n <= Len(s)
        /\ toUpperCase(SubSeq(s, i, i + 4)) = KwLIMIT
        /\ (i = 1 \/ s[i - 1] \notin WordChars)
        /\ \A k \in (i + 5)..(i + 4 + n) : s[k] \in SpaceChars
        /\ s[i + 5 + n] \in Digits

\* t is an optional terminator followed by white space only
IsTerminatorTail(t) ==
    \/ \A k \in 1..Len(t) : t[k] \in SpaceChars
    \/ t # <<>> /\ t[1] = ";" /\ \A k \in 2..Len(t) : t[k] \in SpaceChars

\* text is the statement of src with " LIMIT n" put immediately before its terminator
LimitBeforeTerminator(src, text, n) ==
    LET added == <<" ", "L", "I", "M", "I", "T", " ">> \o NatToString(n) \o <<";">>
        body == SubSeq(text, 1, Len(text) - Len(added))
    IN  /\ Len(text) >= Len(added)
        /\ SubSeq(text, Len(text) - Len(added) + 1, Len(text)) = added
        /\ Len(body) <= Len(src)
        /\ SubSeq(src, 1, Len(body)) = body
        /\ IsTerminatorTail(SubSeq(src, Len(body) + 1, Len(src)))
        /\ \A k \in 1..Len(body) : body[k] # ";"

\* C4: for a valid statement without a LIMIT clause executeSQL sends the same
\* statement with " LIMIT <maxRows>" immediately before the terminator; a statement
\* that declares a LIMIT is sent untouched and reported with limitApplied = false.
C4_LimitBeforeTerminator ==
    \A i \in SentStatements :
        sent[i].kind = "statement" =>
            IF DeclaresLimit(sent[i].src)
            THEN /\ sent[i].text = sent[i].src
                 /\ outcome.kind = "result" => ~outcome.limitApplied
            ELSE LimitBeforeTerminator(sent[i].src, sent[i].text, call.maxRows)

\* C5: on every backend, when the database call of executeSQL takes longer than the
\* configured timeout, the call fails with the timeout failure and delivers no rows.
C5_SlowQueryTimesOut ==
    (/\ call.pc = "done"
     /\ \E i \in SentStatements : sent[i].kind = "statement"
     /\ \/ race.db = "pending" /\ race.elapsed > call.timeout
        \/ race.db \in {"resolved", "rejected"} /\ race.dbDuration > call.timeout)
        => (outcome.kind = "error" /\ outcome.error = ErrTimeout /\ ~outcome.rows)

\* the statements that executeSQL handed to executeWithTimeout in the current call
IssuedQueries == {i \in DOMAIN sent : sent[i].kind = "statement"}

\* C21: within one executeSQL call the database query is issued at most once; whether
\* it succeeds, fails or times out, executeSQL never issues it again.
C21_IssuedAtMostOnce ==
    /\ Cardinality(IssuedQueries) <= 1
    /\ (call.pc = "done" /\ outcome.kind = "error" /\ call.sql \in call.validated
            /\ call.fn = "executeSQL")
          => Cardinality(IssuedQueries) = 1

C21_Witness ==
    /\ call.fn = "executeSQL"
    /\ call.pc = "done"
    /\ outcome.error = ErrTimeout
    /\ race.db = "rejected"
    /\ Cardinality(IssuedQueries) = 1

\* the outcome of the call agrees with the promise that settled the race
OutcomeOfWinner ==
    (call.pc = "done" /\ IssuedQueries # {}) =>
        /\ outcome.kind \in {"result", "error"}
        /\ race.winner = "timer" => (outcome.error = ErrTimeout /\ ~outcome.rows)
        /\ race.winner = "db" =>
              \/ race.db = "resolved" /\ outcome.kind = "result"
              \/ race.db = "rejected" /\ outcome.error = ErrDatabase

\* C22: each executeWithTimeout call delivers exactly one outcome, that of whichever
\* of the database call and the timer settles first; rows that arrive after the timer
\* has fired are discarded, and the caller keeps the timeout error it received.
C22_OneOutcomeFirstSettled ==
    /\ []OutcomeOfWinner
    /\ [][(call.pc = "done" /\ call'.pc = "done") => outcome' = outcome]_vars

C22_Witness ==
    /\ call.pc = "done"
    /\ race.winner = "timer"
    /\ race.timer = "fired"
    /\ race.db = "resolved"
    /\ outcome.error = ErrTimeout
    /\ ~outcome.rows

\* t without the terminators and the white space at its end
RECURSIVE StripTail(_)
StripTail(t) ==
    IF t # <<>> /\ (t[Len(t)] = ";" \/ t[Len(t)] \in SpaceChars)
    THEN StripTail(SubSeq(t, 1, Len(t) - 1))
    ELSE t

\* the number of digits at the end of t
RECURSIVE TrailingDigits(_)
TrailingDigits(t) ==
    IF t # <<>> /\ t[Len(t)] \in Digits
    THEN 1 + TrailingDigits(SubSeq(t, 1, Len(t) - 1))
    ELSE 0

\* the number a string of digits denotes
RECURSIVE DigitsValue(_)
DigitsValue(d) ==
    IF d = <<>> THEN 0
    ELSE 10 * DigitsValue(SubSeq(d, 1, Len(d) - 1))
            + (CHOOSE n \in 0..9 : DigitSeq[n + 1] = d[Len(d)])

\* the outer query of t ends with the clause LIMIT n for some n <= maxRows
OuterLimitWithin(t, maxRows) ==
    LET body == StripTail(t)
        k == TrailingDigits(body)
        before == trimEnd(SubSeq(body, 1, Len(body) - k))
    IN  /\ k > 0
        /\ Len(before) < Len(body) - k
        /\ Len(before) >= 5
        /\ toUpperCase(SubSeq(before, Len(before) - 4, Len(before))) = KwLIMIT
        /\ (Len(before) = 5 \/ before[Len(before) - 5] \notin WordChars)
        /\ DigitsValue(SubSeq(body, Len(body) - k + 1, Len(body))) <= maxRows

\* C26: every statement executeSQL sends to the database is bounded by the configured
\* maximum: whatever LIMIT the statement declares and wherever a LIMIT appears in it
\* (outer query, subquery, string literal), its outer query is capped at maxRows.
C26_SentStatementBounded ==
    \A i \in IssuedQueries : OuterLimitWithin(sent[i].text, call.maxRows)

\* C27: for every statement validateSQL accepts, the text sent after the LIMIT
\* injection is exactly one non-empty ';'-separated statement that ends with a single
\* ';', also for a statement that ends with repeated terminators.
C27_InjectionKeepsOneStatement ==
    \A i \in IssuedQueries :
        sent[i].text # sent[i].src =>
            LET t == sent[i].text
            IN  /\ SegmentCount(t) = 1
                /\ t[Len(t)] = ";"
                /\ \A k \in 1..(Len(t) - 1) : t[k] # ";"

(***************************************************************************)
(* The schema cache: an LRUCache with max, ttl, updateAgeOnGet and         *)
(* updateAgeOnHas.  The cache is the sequence of its entries, the least    *)
(* recently used first; start is the time the age of an entry counts from, *)
(* storedAt the time setSchemaInCache stored its value.                    *)
(***************************************************************************)
SchemaCacheMax == 2     \* max: the configured number of entries
SchemaCacheTTL == 2     \* ttl: the configured time-to-live, in clock ticks
MaxTime == 4            \* the clock stops here

updateAgeOnGet == TRUE
updateAgeOnHas == TRUE

CacheKeys == {"sqlite:default", "postgres:northwind", "mysql:northwind"}
TableNames == {"orders", "upload_a"}
CacheValues == {{}, {"orders"}}

Without(c, i) == SubSeq(c, 1, i - 1) \o SubSeq(c, i + 1, Len(c))
HasKey(c, k) == \E i \in DOMAIN c : c[i].key = k
IndexOf(c, k) == CHOOSE i \in DOMAIN c : c[i].key = k

\* LRUCache's staleness test: the age of the entry exceeds the ttl
isStale(e, t) == t - e.start > SchemaCacheTTL

\* cache.get(key): what it returns (hit, value)
LRUGetResult(c, k, t) ==
    IF HasKey(c, k) /\ ~isStale(c[IndexOf(c, k)], t)
    THEN [hit |-> TRUE, value |-> c[IndexOf(c, k)].value]
    ELSE [hit |-> FALSE, value |-> {}]

\* cache.get(key): the cache afterwards.  A stale entry is deleted; a fresh one
\* becomes the most recently used and, with updateAgeOnGet, its age restarts.
LRUGet(c, k, t) ==
    IF ~HasKey(c, k) THEN c
    ELSE LET i == IndexOf(c, k)
         IN  IF isStale(c[i], t)
             THEN Without(c, i)
             ELSE Append(Without(c, i),
                         [c[i] EXCEPT !.start = IF updateAgeOnGet THEN t ELSE @])

\* cache.has(key): what it returns
LRUHasResult(c, k, t) == HasKey(c, k) /\ ~isStale(c[IndexOf(c, k)], t)

\* cache.has(key): the cache afterwards.  With updateAgeOnHas the age of a fresh
\* entry restarts; its recency does not change.
LRUHas(c, k, t) ==
    IF LRUHasResult(c, k, t) /\ updateAgeOnHas
    THEN [c EXCEPT ![IndexOf(c, k)].start = t]
    ELSE c

\* cache.set(key, value, {ttl: undefined}): the entry becomes the most recently used
\* and its age starts; a new key in a full cache evicts the least recently used entry
LRUSet(c, k, v, t) ==
    LET e == [key |-> k, value |-> v, start |-> t, storedAt |-> t]
    IN  IF HasKey(c, k) THEN Append(Without(c, IndexOf(c, k)), e)
        ELSE IF Len(c) >= SchemaCacheMax THEN Append(Tail(c), e)
        ELSE Append(c, e)

\* cache.delete(key)
LRUDelete(c, k) == IF HasKey(c, k) THEN Without(c, IndexOf(c, k)) ELSE c

\* cache.clear()
LRUClear == <<>>

\* getSchemaFromCache(key)
GetSchemaFromCache ==
    /\ \E k \in CacheKeys :
         /\ cache' = LRUGet(cache, k, now)
         /\ lastGet' =
              [key |-> k,
               found |-> HasKey(cache, k),
               stored |-> IF HasKey(cache, k) THEN cache[IndexOf(cache, k)].value ELSE {},
               storedAt |-> IF HasKey(cache, k) THEN cache[IndexOf(cache, k)].storedAt ELSE 0,
               hit |-> LRUGetResult(cache, k, now).hit,
               value |-> LRUGetResult(cache, k, now).value]
    /\ UNCHANGED now
    /\ CacheFrame

\* setSchemaInCache(key, schema)
SetSchemaInCache ==
    /\ \E k \in CacheKeys, v \in CacheValues : cache' = LRUSet(cache, k, v, now)
    /\ lastGet' = NoGet
    /\ UNCHANGED now
    /\ CacheFrame

\* hasInCache(key)
HasInCache ==
    /\ \E k \in CacheKeys : cache' = LRUHas(cache, k, now)
    /\ lastGet' = NoGet
    /\ UNCHANGED now
    /\ CacheFrame

\* clearCacheKey(key)
ClearCacheKey ==
    /\ \E k \in CacheKeys : HasKey(cache, k) /\ cache' = LRUDelete(cache, k)
    /\ lastGet' = NoGet
    /\ UNCHANGED now
    /\ CacheFrame

\* clearAllCache()
ClearAllCache ==
    /\ cache # <<>>
    /\ cache' = LRUClear
    /\ lastGet' = NoGet
    /\ UNCHANGED now
    /\ CacheFrame

\* time passes
CacheTick ==
    /\ now < MaxTime
    /\ now' = now + 1
    /\ lastGet' = NoGet
    /\ UNCHANGED cache
    /\ CacheFrame

InitCache ==
    /\ cache = <<>>
    /\ now = 0
    /\ lastGet = NoGet
    /\ IdleSan
    /\ IdleExec
    /\ IdleUpload
    /\ IdleGroq
    /\ IdleIntrospect
    /\ IdleHistory

NextCache ==
    \/ GetSchemaFromCache
    \/ SetSchemaInCache
    \/ HasInCache
    \/ ClearCacheKey
    \/ ClearAllCache
    \/ CacheTick

SpecCache == InitCache /\ [][NextCache]_vars

(***************************************************************************)
(* Claims about the schema cache                                           *)
(***************************************************************************)
\* C6: after any sequence of set, get and has, getSchemaFromCache never returns a
\* schema that was stored more than the TTL ago: a read never extends the expiry.
C6_NeverOlderThanTTL ==
    lastGet.hit => now - lastGet.storedAt <= SchemaCacheTTL

\* C7: a schema stored under a key is returned unchanged by getSchemaFromCache while
\* the TTL has not elapsed since it was stored; once the TTL has elapsed
\* getSchemaFromCache returns absent and leaves no entry under the key.
C7_SetThenGet ==
    (lastGet.key # "none" /\ lastGet.found) =>
        IF now - lastGet.storedAt <= SchemaCacheTTL
        THEN lastGet.hit /\ lastGet.value = lastGet.stored
        ELSE ~lastGet.hit /\ ~HasKey(cache, lastGet.key)

(***************************************************************************)
(* Schema introspection: getSchema and the metadata queries of a backend   *)
(***************************************************************************)
\* dbType as getSchema may be handed it, lower-cased; "oracle" is not supported
IntrospectBackends == Backends \cup {"postgresql", "oracle"}

\* the tables the first metadata query may list, in the order of its ORDER BY
TableLists ==
    { <<>>, <<"orders">>, <<"orders", "upload_a">>, <<"customers", "orders", "upload_a">> }

Query(kind, table) == [kind |-> kind, table |-> table]

\* the metadata queries one table needs inside the loop over the tables
RECURSIVE PerTable(_, _)
PerTable(ts, kinds) ==
    IF ts = <<>> THEN <<>>
    ELSE [i \in 1..Len(kinds) |-> Query(kinds[i], Head(ts))] \o PerTable(Tail(ts), kinds)

\* the metadata queries that follow the list of tables, in the order they are issued
QueryPlan(backend, ts) ==
    CASE backend = "sqlite" ->
            PerTable(ts, <<"columns">>) \o PerTable(ts, <<"foreignKeys">>)
      [] backend = "mysql" ->
            PerTable(ts, <<"columns", "foreignKeys">>)
      [] OTHER ->
            PerTable(ts, <<"columns", "primaryKeys", "foreignKeys">>)

\* what a failed metadata query does to getSchema: the primary-key query of
\* getPostgresSchema carries .catch(() => ({ rows: [] })), every other failure is thrown
onQueryFailure(backend, kind) ==
    IF backend \in {"postgres", "postgresql"} /\ kind = "primaryKeys"
    THEN "default"
    ELSE "throw"

\* getSchema(db, dbType, options): the switch, and the query that lists the tables
GetSchemaCall ==
    /\ intro.pc = "idle"
    /\ \E b \in IntrospectBackends :
         intro' = IF b = "oracle"
                  THEN [IdleIntro EXCEPT !.pc = "failed", !.backend = b]
                  ELSE [IdleIntro EXCEPT !.pc = "listing", !.backend = b]
    /\ IntrospectFrame

\* the query that lists the tables settles
TablesAnswered ==
    /\ intro.pc = "listing"
    /\ \/ \E ts \in TableLists :
            LET plan == QueryPlan(intro.backend, ts)
            IN  intro' = [intro EXCEPT !.tables = ts, !.plan = plan,
                                       !.answered = {Query("tables", "none")},
                                       !.pc = IF plan = <<>> THEN "returned" ELSE "querying"]
       \/ intro' = [intro EXCEPT !.pc = "failed", !.failed = {Query("tables", "none")}]
    /\ IntrospectFrame

\* the metadata query at the head of the plan settles
MetadataAnswered ==
    /\ intro.pc = "querying"
    /\ LET q == Head(intro.plan)
           rest == Tail(intro.plan)
           after == IF rest = <<>> THEN "returned" ELSE "querying"
       IN  \/ intro' = [intro EXCEPT !.plan = rest, !.pc = after,
                                     !.answered = @ \cup {q}]
           \/ intro' = IF onQueryFailure(intro.backend, q.kind) = "default"
                       THEN [intro EXCEPT !.plan = rest, !.pc = after,
                                          !.failed = @ \cup {q},
                                          !.defaulted = @ \cup {q}]
                       ELSE [intro EXCEPT !.pc = "failed", !.failed = @ \cup {q}]
    /\ IntrospectFrame

\* getSchema has returned the schema or thrown
GetSchemaReturn ==
    /\ intro.pc \in {"returned", "failed"}
    /\ intro' = IdleIntro
    /\ IntrospectFrame

InitIntrospect ==
    /\ IdleIntrospect
    /\ IdleSan
    /\ IdleExec
    /\ IdleCache
    /\ IdleUpload
    /\ IdleGroq
    /\ IdleHistory

NextIntrospect ==
    \/ GetSchemaCall
    \/ TablesAnswered
    \/ MetadataAnswered
    \/ GetSchemaReturn

SpecIntrospect == InitIntrospect /\ [][NextIntrospect]_vars

(***************************************************************************)
(* Claims about schema introspection                                       *)
(***************************************************************************)
\* C14: on every backend, if any metadata query issued during getSchema fails,
\* getSchema fails as a whole: it never returns a schema for which a query failed,
\* with the information of that query missing or defaulted.
C14_NoPartialSchema ==
    intro.pc = "returned" => (intro.failed = {} /\ intro.defaulted = {})

(***************************************************************************)
(* The upload and delete routes, and generateSQL's use of the schema cache *)
(***************************************************************************)
MaxUploadRows == 2      \* the most rows an uploaded file holds

\* the table names parseFile generates, and tableName.startsWith('upload_')
UploadNames == {"upload_a"}
startsWithUpload(name) == name \in UploadNames

\* the request ends with an error: the error handler answers, nothing else runs
UpFailed == [up EXCEPT !.pc = "done", !.error = TRUE]

\* POST /api/upload arrives; without a file the route answers 400
UploadRequest ==
    /\ up.pc = "idle"
    /\ \E hasFile \in BOOLEAN :
         up' = IF hasFile
               THEN [IdleUp EXCEPT !.kind = "upload", !.pc = "parsing", !.before = tables]
               ELSE [IdleUp EXCEPT !.kind = "upload", !.pc = "done", !.error = TRUE,
                                   !.before = tables]
    /\ UNCHANGED <<tables, gen, cache>>
    /\ UploadFrame

\* parseFile settles; createTableFromData starts and sends DROP TABLE IF EXISTS
UploadParsed ==
    /\ up.kind = "upload" /\ up.pc = "parsing"
    /\ \/ \E t \in UploadNames, n \in 1..MaxUploadRows :
            up' = [up EXCEPT !.pc = "dropping", !.table = t, !.rows = n]
       \/ up' = UpFailed
    /\ UNCHANGED <<tables, gen, cache>>
    /\ UploadFrame

\* DROP TABLE IF EXISTS settles; createTableFromData sends CREATE TABLE
UploadDropped ==
    /\ up.kind = "upload" /\ up.pc = "dropping"
    /\ \/ /\ tables' = tables \ {up.table}
          /\ up' = [up EXCEPT !.pc = "creating"]
       \/ /\ up' = UpFailed
          /\ UNCHANGED tables
    /\ UNCHANGED <<gen, cache>>
    /\ UploadFrame

\* CREATE TABLE settles; createTableFromData sends the first INSERT
UploadCreated ==
    /\ up.kind = "upload" /\ up.pc = "creating"
    /\ \/ /\ tables' = tables \cup {up.table}
          /\ up' = [up EXCEPT !.pc = "inserting"]
       \/ /\ up' = UpFailed
          /\ UNCHANGED tables
    /\ UNCHANGED <<gen, cache>>
    /\ UploadFrame

\* an INSERT settles; after the last one createTableFromData returns and the route
\* calls clearAllCache and answers
UploadInserted ==
    /\ up.kind = "upload" /\ up.pc = "inserting"
    /\ \/ /\ up.rows > 1
          /\ up' = [up EXCEPT !.rows = @ - 1]
          /\ UNCHANGED cache
       \/ /\ up.rows = 1
          /\ up' = [up EXCEPT !.rows = 0, !.pc = "done", !.cleared = TRUE]
          /\ cache' = LRUClear
       \/ /\ up' = UpFailed
          /\ UNCHANGED cache
    /\ UNCHANGED <<tables, gen>>
    /\ UploadFrame

\* DELETE /api/upload/:tableName arrives; deleteUploadedTable refuses a name without
\* the upload_ prefix, else sends DROP TABLE IF EXISTS
DeleteRequest ==
    /\ up.pc = "idle"
    /\ \E name \in TableNames :
         up' = IF startsWithUpload(name)
               THEN [IdleUp EXCEPT !.kind = "delete", !.pc = "dropping", !.table = name,
                                   !.before = tables]
               ELSE [IdleUp EXCEPT !.kind = "delete", !.pc = "done", !.table = name,
                                   !.error = TRUE, !.before = tables]
    /\ UNCHANGED <<tables, gen, cache>>
    /\ UploadFrame

\* the DROP of deleteUploadedTable settles; the route calls clearAllCache and answers
DeleteDropped ==
    /\ up.kind = "delete" /\ up.pc = "dropping"
    /\ \/ /\ tables' = tables \ {up.table}
          /\ up' = [up EXCEPT !.pc = "done", !.cleared = TRUE]
          /\ cache' = LRUClear
       \/ /\ up' = UpFailed
          /\ UNCHANGED <<tables, cache>>
    /\ UNCHANGED gen
    /\ UploadFrame

\* the request has been answered
UploadDone ==
    /\ up.pc = "done"
    /\ up' = IdleUp
    /\ UNCHANGED <<tables, gen, cache>>
    /\ UploadFrame

\* the dbType of cacheKey = `${dbType}:${options.database || 'default'}`
dbTypeOfKey(k) ==
    CASE k = "sqlite:default" -> "sqlite"
      [] k = "postgres:northwind" -> "postgres"
      [] k = "mysql:northwind" -> "mysql"

\* the kinds of metadata query getSchema sends on a backend
MetadataKinds(backend) ==
    LET plan == QueryPlan(backend, <<"orders">>)
    IN  {"tables"} \cup {plan[i].kind : i \in DOMAIN plan}

\* generateSQL starts: getSchemaFromCache(cacheKey); on a miss getSchema is awaited
GenerateStart ==
    /\ gen.pc = "idle"
    /\ \E k \in CacheKeys :
         LET got == LRUGetResult(cache, k, now)
         IN  /\ cache' = LRUGet(cache, k, now)
             /\ gen' = IF got.hit
                       THEN [IdleGen EXCEPT !.pc = "prompting", !.key = k,
                                            !.schema = got.value]
                       ELSE [IdleGen EXCEPT !.pc = "introspecting", !.key = k]
    /\ UNCHANGED <<tables, up>>
    /\ UploadFrame

\* the metadata queries of getSchema read the tables of the database, or one of them
\* fails: getSchema rejects and generateSQL rethrows, unless the backend's schema
\* function replaces the failed answer by a default and returns its schema
GenerateIntrospected ==
    /\ gen.pc = "introspecting"
    /\ \/ gen' = [gen EXCEPT !.pc = "introspected", !.schema = tables]
       \/ \E kind \in MetadataKinds(dbTypeOfKey(gen.key)) :
            gen' = IF onQueryFailure(dbTypeOfKey(gen.key), kind) = "default"
                   THEN [gen EXCEPT !.pc = "introspected", !.schema = tables,
                                    !.failed = TRUE]
                   ELSE [gen EXCEPT !.pc = "done", !.failed = TRUE]
    /\ UNCHANGED <<tables, up, cache>>
    /\ UploadFrame

\* getSchema settles: setSchemaInCache(cacheKey, schema), then the prompt is built
GenerateCached ==
    /\ gen.pc = "introspected"
    /\ cache' = LRUSet(cache, gen.key, gen.schema, now)
    /\ gen' = [gen EXCEPT !.pc = "prompting"]
    /\ UNCHANGED <<tables, up>>
    /\ UploadFrame

\* the prompt built, the request goes on to the AI collaborator and ends
GenerateDone ==
    /\ gen.pc \in {"prompting", "done"}
    /\ gen' = IdleGen
    /\ UNCHANGED <<tables, up, cache>>
    /\ UploadFrame

InitUpload ==
    /\ tables \in {{"orders"}, {"orders", "upload_a"}}
    /\ up = IdleUp
    /\ gen = IdleGen
    /\ IdleCache
    /\ IdleSan
    /\ IdleExec
    /\ IdleGroq
    /\ IdleIntrospect
    /\ IdleHistory

NextUpload ==
    \/ UploadRequest
    \/ UploadParsed
    \/ UploadDropped
    \/ UploadCreated
    \/ UploadInserted
    \/ DeleteRequest
    \/ DeleteDropped
    \/ UploadDone
    \/ GenerateStart
    \/ GenerateIntrospected
    \/ GenerateCached
    \/ GenerateDone

SpecUpload == InitUpload /\ [][NextUpload]_vars

(***************************************************************************)
(* Claims about the upload and delete routes                               *)
(***************************************************************************)
\* C8: whenever an upload or delete request has changed the set of tables, the schema
\* cache has been invalidated by the time the request finishes, whether the request
\* succeeded or failed part-way through the creation of the table.
C8_InvalidatedOnChange ==
    (up.pc = "done" /\ tables # up.before) => up.cleared

(***************************************************************************)
(* Claims about generateSQL and the schema cache                           *)
(***************************************************************************)
\* C24: when schema introspection fails inside generateSQL, the failure is surfaced
\* to the caller, the schema cache is left exactly as it was (nothing is stored under
\* the cache key), and the AI collaborator is not called.
C24_FailedIntrospectionNotCached ==
    [][(gen' # gen /\ gen'.failed) => (gen'.pc = "done" /\ cache' = cache)]_vars

\* C25: once an upload or delete request has completed (table set changed, cache
\* cleared), the schema cache holds no schema that was introspected before the
\* change, also when a generateSQL request introspected concurrently (stated here for
\* the backends whose handle answers asynchronously).
C25_NoStaleSchemaAfterChange ==
    (up.pc = "done" /\ up.cleared /\ tables # up.before) =>
        \A i \in DOMAIN cache :
            ~SynchronousHandle(dbTypeOfKey(cache[i].key)) => cache[i].value = tables

(***************************************************************************)
(* The Groq client: callGroq and its retry loop, as called by generateSQL  *)
(***************************************************************************)
DefaultMaxRetries == 3      \* maxRetries when the options do not set it

\* the status of the error of a failed attempt; NoStatus is an error without one
\* ('No response from Groq API', 'Empty response from Groq API', a missing API key)
NoStatus == 0
Answered == 200
RetryableStatuses == {429, 500, 502, 503, 504}
FailureStatuses == RetryableStatuses \cup {NoStatus, 400, 401}

\* options.maxRetries as the callers may set it; 0 stands for an unset option
RetryOptions == {0, 1, 2}

\* Math.pow(2, n)
RECURSIVE Pow2(_)
Pow2(n) == IF n = 0 THEN 1 ELSE 2 * Pow2(n - 1)

\* Math.min(1000 * Math.pow(2, attempt), 10000)
waitTime(attempt) ==
    IF 1000 * Pow2(attempt) < 10000 THEN 1000 * Pow2(attempt) ELSE 10000

\* the catch block of callGroq with every failure retried while attempts are left
callGroqCatch_RetryAll(status, attempt, maxRetries) ==
    IF status = 429 /\ attempt < maxRetries THEN "wait"
    ELSE IF attempt = maxRetries THEN "throw"
    ELSE "retry"

\* the catch block of callGroq making one attempt more than maxRetries
callGroqCatch_OneMore(status, attempt, maxRetries) ==
    IF status = 429 /\ attempt < maxRetries THEN "wait"
    ELSE IF attempt > maxRetries \/ status \notin RetryableStatuses THEN "throw"
    ELSE "retry"

\* the catch block of callGroq: wait and retry, retry at once, or throw the error
callGroqCatch(status, attempt, maxRetries) ==
    IF status = 429 /\ attempt < maxRetries THEN "wait"
    ELSE IF attempt = maxRetries \/ status \notin RetryableStatuses THEN "throw"
    ELSE "retry"

\* generateSQL calls callGroqAI, which calls callGroq: without an API key callGroq throws
\* at once, else the first attempt is sent
CallGroq ==
    /\ ai.pc = "idle"
    /\ \E keyed \in BOOLEAN, opt \in RetryOptions :
         ai' = IF keyed
               THEN [IdleAi EXCEPT !.pc = "calling", !.attempt = 1,
                                   !.maxRetries = IF opt = 0 THEN DefaultMaxRetries ELSE opt]
               ELSE [IdleAi EXCEPT !.pc = "failed", !.error = NoStatus]
    /\ GroqFrame

\* the attempt is answered with text: callGroq returns it, and generateSQL cleans and
\* validates it; a rejected text makes generateSQL throw
GroqAnswer ==
    /\ ai.pc = "calling"
    /\ \E raw \in RawAnswers :
         LET sql == cleanSQL(trim(raw))
         IN  ai' = [ai EXCEPT !.pc = "done", !.log = Append(@, Answered),
                              !.sql = sql, !.verdict = validateSQL(sql)]
    /\ GroqFrame

\* the attempt fails, with the status of the API or without one (no choices, empty
\* content): the catch block decides what follows
GroqFail ==
    /\ ai.pc = "calling"
    /\ \E status \in FailureStatuses :
         LET next == callGroqCatch(status, ai.attempt, ai.maxRetries)
         IN  ai' = CASE next = "wait" ->
                          [ai EXCEPT !.pc = "waiting", !.log = Append(@, status),
                                     !.waits = Append(@, waitTime(ai.attempt))]
                     [] next = "retry" ->
                          [ai EXCEPT !.attempt = @ + 1, !.log = Append(@, status)]
                     [] OTHER ->
                          [ai EXCEPT !.pc = "failed", !.log = Append(@, status),
                                     !.error = status]
    /\ GroqFrame

\* the wait after a rate-limit failure is over: the next attempt is sent
GroqWaited ==
    /\ ai.pc = "waiting"
    /\ ai' = [ai EXCEPT !.pc = "calling", !.attempt = @ + 1]
    /\ GroqFrame

\* generateSQL has returned or thrown
GroqReturn ==
    /\ ai.pc \in {"done", "failed"}
    /\ ai' = IdleAi
    /\ GroqFrame

InitGroq ==
    /\ IdleGroq
    /\ IdleSan
    /\ IdleExec
    /\ IdleCache
    /\ IdleUpload
    /\ IdleIntrospect
    /\ IdleHistory

NextGroq ==
    \/ CallGroq
    \/ GroqAnswer
    \/ GroqFail
    \/ GroqWaited
    \/ GroqReturn

SpecGroq == InitGroq /\ [][NextGroq]_vars

\* an attempt that is awaited does not stay pending (the client rejects it at its
\* timeout at the latest), a timer that is set fires, and generateSQL resumes when
\* callGroq has settled
SpecGroqLive ==
    /\ SpecGroq
    /\ WF_vars(GroqFail)
    /\ WF_vars(GroqWaited)
    /\ WF_vars(GroqReturn)

(***************************************************************************)
(* Claims about the Groq client                                            *)
(***************************************************************************)
\* C13: callGroq makes a further attempt only after a failure with status 429, 500,
\* 502, 503 or 504; after any other failure it stops and surfaces that error; and once
\* an attempt is answered no further attempt is made, whether validateSQL accepts the
\* generated text or rejects it.
C13_RetryOnlyOnRetryable ==
    /\ \A i \in 1..Len(ai.log) :
          i < ai.attempt => ai.log[i] \in RetryableStatuses
    /\ \A i \in 1..Len(ai.log) :
          ai.log[i] \in FailureStatuses \ RetryableStatuses =>
              /\ i = Len(ai.log)
              /\ ai.attempt = i
              /\ ai.pc = "failed"
              /\ ai.error = ai.log[i]
    /\ \A i \in 1..Len(ai.log) :
          ai.log[i] = Answered =>
              /\ i = Len(ai.log)
              /\ ai.attempt = i
              /\ ai.pc = "done"
    /\ ai.attempt <= ai.maxRetries

C13_Witness ==
    /\ ai.pc = "done"
    /\ ai.log = <<503, 429, Answered>>
    /\ ai.verdict \notin {Accepted, "none"}

\* C23: between every two consecutive attempts of callGroq there is a backoff wait of
\* min(1000 * 2^attempt, 10000) ms, after a failure with status 429 and after one with
\* status 500, 502, 503 or 504 alike.
C23_BackoffBetweenAttempts ==
    /\ ai.attempt >= 1 =>
          Len(ai.waits) = (IF ai.pc = "waiting" THEN ai.attempt ELSE ai.attempt - 1)
    /\ \A i \in DOMAIN ai.waits :
          ai.waits[i] = (IF 1000 * Pow2(i) < 10000 THEN 1000 * Pow2(i) ELSE 10000)

\* callGroq has settled as its attempts require: it returned the text of the attempt
\* that was answered, or threw the error of the last attempt made
SettledAsLastAttempt ==
    /\ Len(ai.log) <= ai.maxRetries
    /\ ai.attempt <= ai.maxRetries
    /\ ai.pc = "done" =>
          /\ ai.log[Len(ai.log)] = Answered
          /\ \A i \in 1..(Len(ai.log) - 1) : ai.log[i] \in RetryableStatuses
    /\ (ai.pc = "failed" /\ ai.attempt >= 1) =>
          /\ Len(ai.log) = ai.attempt
          /\ ai.error = ai.log[Len(ai.log)]
          /\ \A i \in 1..Len(ai.log) : ai.log[i] # Answered

\* C30: callGroq terminates after at most maxRetries (default 3) calls of the API,
\* whatever the API answers: it returns the first response text or throws the error
\* of the last attempt made.
C30_TerminatesWithinMaxRetries ==
    /\ []SettledAsLastAttempt
    /\ (ai.pc \in {"calling", "waiting"}) ~> (ai.pc \in {"done", "failed"})

C30_Witness ==
    /\ ai.pc = "failed"
    /\ ai.maxRetries = DefaultMaxRetries
    /\ ai.log = <<429, 500, 503>>
    /\ ai.error = 503

(***************************************************************************)
(* The query history: the in-memory store, the persisted store, and the    *)
(* recording of an outcome by queryFromQuestion                            *)
(***************************************************************************)
MAX_HISTORY_SIZE == 3       \* the retention count of the in-memory store, scaled down
MaxAdds == 5                \* the most entries added since the store was last empty
DefaultHistoryLimit == 100  \* options.limit of getHistory when unset

\* the error message of an entry recorded for a success
NoError == "none"

\* the entry as stored: the id, the fields of the caller, the timestamp
HistoryEntry(h, seq, success, error) ==
    [id |-> Len(h) + 1, seq |-> seq, success |-> success, error |-> error,
     timestamp |-> seq]

\* addToHistory of the in-memory store without the trim
addToHistory_NoTrim(h, seq, success, error) ==
    <<HistoryEntry(h, seq, success, error)>> \o h

\* addToHistory of the in-memory store: history.unshift(...), then history.pop() when
\* the length exceeds MAX_HISTORY_SIZE
addToHistory(h, seq, success, error) ==
    LET grown == <<HistoryEntry(h, seq, success, error)>> \o h
    IN  IF Len(grown) > MAX_HISTORY_SIZE THEN SubSeq(grown, 1, Len(grown) - 1) ELSE grown

\* the options of getHistory; "any" and 0 stand for an option left unset
HistoryFilters == {"any", "success", "failure"}
HistoryLimits == {0, 1, 2}
HistoryBounds == {0, 2, 4}

\* getHistory(options): the filters on success, since and until, then slice(0, limit)
getHistory(h, filter, since, until, limit) ==
    LET bySuccess == SelectSeq(h, LAMBDA e :
                        filter = "any" \/ e.success = (filter = "success"))
        bySince == SelectSeq(bySuccess, LAMBDA e : since = 0 \/ e.timestamp >= since)
        byUntil == SelectSeq(bySince, LAMBDA e : until = 0 \/ e.timestamp <= until)
        n == IF limit = 0 THEN DefaultHistoryLimit ELSE limit
    IN  SubSeq(byUntil, 1, IF Len(byUntil) < n THEN Len(byUntil) ELSE n)

\* the recorders: the in-memory addToHistory and the persisted one
Recorders == {"memory", "persisted", "persisted without table"}

\* a persisted addToHistory that throws when there is no table, instead of skipping
addToHistoryCall_ThrowsUnready(variant) ==
    CASE variant = "memory" -> "recorded"
      [] variant = "persisted" -> "pending"
      [] OTHER -> "thrown"

\* what the call addToHistory(entry) does before queryFromQuestion goes on: the
\* in-memory one has stored the entry; the persisted one returns at once when there is
\* no connection or no table, else its INSERT is under way inside its try block
addToHistoryCall(variant) ==
    CASE variant = "memory" -> "recorded"
      [] variant = "persisted" -> "pending"
      [] OTHER -> "skipped"

\* queryFromQuestion after addToHistory: an exception of addToHistory in the try block is
\* caught by the catch block, recorded as a failed attempt and thrown; one in the catch
\* block replaces the original error; otherwise the result or the original error
queryFromQuestionDelivers(primary, recorded) ==
    IF recorded = "thrown" THEN "recorder error" ELSE primary

\* an entry that is marked as a success whatever the outcome
queryFromQuestionRecord_AlwaysSuccess(primary) ==
    [success |-> TRUE, error |-> NoError]

\* the fields queryFromQuestion hands to addToHistory: success: true after a result,
\* success: false and error: error.message in its catch block
queryFromQuestionRecord(primary) ==
    IF primary = "result"
    THEN [success |-> TRUE, error |-> NoError]
    ELSE [success |-> FALSE, error |-> primary]

\* the outcomes of generateSQL and executeSQL inside queryFromQuestion
PrimaryOutcomes == {"result", "generation error", "validation error", "execution error"}

\* addToHistory called on its own
AddToHistory ==
    /\ rec.pc = "idle"
    /\ rec.added < MaxAdds
    /\ \E success \in BOOLEAN :
         history' = addToHistory(history, rec.added + 1, success,
                                 IF success THEN NoError ELSE "execution error")
    /\ rec' = [rec EXCEPT !.added = @ + 1, !.read = <<>>, !.readRun = FALSE]
    /\ HistoryFrame

\* getHistory(options)
GetHistory ==
    /\ rec.pc = "idle"
    /\ \E f \in HistoryFilters, s \in HistoryBounds, u \in HistoryBounds,
          l \in HistoryLimits :
         rec' = [rec EXCEPT !.read = getHistory(history, f, s, u, l), !.readRun = TRUE]
    /\ UNCHANGED history
    /\ HistoryFrame

\* clearHistory(): history.length = 0
ClearHistory ==
    /\ rec.pc = "idle"
    /\ history # <<>>
    /\ history' = <<>>
    /\ rec' = [rec EXCEPT !.added = 0, !.read = <<>>, !.readRun = FALSE]
    /\ HistoryFrame

\* queryFromQuestion has the outcome of generateSQL and executeSQL in hand
QueryOutcome ==
    /\ rec.pc = "idle"
    /\ rec.added < MaxAdds
    /\ \E primary \in PrimaryOutcomes, variant \in Recorders :
         rec' = [rec EXCEPT !.pc = "recording", !.primary = primary,
                            !.variant = variant, !.delivered = "none",
                            !.recorder = "none", !.read = <<>>, !.readRun = FALSE]
    /\ UNCHANGED history
    /\ HistoryFrame

\* queryFromQuestion calls addToHistory, in its try block after a result and in its
\* catch block after an error, then returns the result or throws the error
RecordOutcome ==
    /\ rec.pc = "recording"
    /\ LET recorded == addToHistoryCall(rec.variant)
           entry == queryFromQuestionRecord(rec.primary)
       IN  /\ rec' = [rec EXCEPT !.pc = "delivered",
                                 !.delivered = queryFromQuestionDelivers(rec.primary, recorded),
                                 !.pending = (recorded = "pending"),
                                 !.recorder = recorded,
                                 !.added = IF recorded = "recorded" THEN @ + 1 ELSE @]
           /\ history' = IF recorded = "recorded"
                         THEN addToHistory(history, rec.added + 1, entry.success,
                                           entry.error)
                         ELSE history
    /\ HistoryFrame

\* the INSERT of the persisted addToHistory settles; a failure is logged by its catch
RecorderSettles ==
    /\ rec.pending
    /\ \E ok \in BOOLEAN :
         rec' = [rec EXCEPT !.pending = FALSE,
                            !.recorder = IF ok THEN "stored" ELSE "failed"]
    /\ UNCHANGED history
    /\ HistoryFrame

\* the caller of queryFromQuestion has its answer
QueryDelivered ==
    /\ rec.pc = "delivered"
    /\ ~rec.pending
    /\ rec' = [IdleRec EXCEPT !.added = rec.added]
    /\ UNCHANGED history
    /\ HistoryFrame

InitHistory ==
    /\ IdleHistory
    /\ IdleSan
    /\ IdleExec
    /\ IdleCache
    /\ IdleUpload
    /\ IdleGroq
    /\ IdleIntrospect

NextHistory ==
    \/ AddToHistory
    \/ GetHistory
    \/ ClearHistory
    \/ QueryOutcome
    \/ RecordOutcome
    \/ RecorderSettles
    \/ QueryDelivered

SpecHistory == InitHistory /\ [][NextHistory]_vars

(***************************************************************************)
(* Claims about the query history                                          *)
(***************************************************************************)
\* C15: after any sequence of addToHistory calls the in-memory history holds exactly
\* the most recently added min(n, MAX_HISTORY_SIZE) entries, newest first: its size
\* never exceeds MAX_HISTORY_SIZE, the oldest entry is the one evicted, and getHistory
\* returns entries in reverse-chronological order.
C15_NewestFirstBounded ==
    /\ Len(history) <= MAX_HISTORY_SIZE
    /\ Len(history) = (IF rec.added < MAX_HISTORY_SIZE THEN rec.added ELSE MAX_HISTORY_SIZE)
    /\ \A i \in 1..Len(history) : history[i].seq = rec.added - i + 1
    /\ \A i \in 1..Len(rec.read) : \A j \in 1..Len(rec.read) :
          i < j => rec.read[i].seq > rec.read[j].seq
    /\ \A i \in 1..Len(rec.read) : \E k \in 1..Len(history) : rec.read[i] = history[k]

C15_Witness ==
    /\ rec.added = MaxAdds
    /\ Len(history) = MAX_HISTORY_SIZE
    /\ rec.readRun
    /\ Len(rec.read) = 2

\* C16: if recording the history entry fails during queryFromQuestion, the caller
\* still receives the outcome of the query itself, the result or the original error;
\* the failure of the recorder is never what the caller sees.
C16_RecorderFailureNotSeen ==
    /\ rec.delivered \in {"none", rec.primary}
    /\ rec.pc = "delivered" => rec.delivered = rec.primary
    /\ rec.recorder = "failed" => rec.delivered = rec.primary

C16_Witness ==
    /\ rec.pc = "delivered"
    /\ rec.recorder = "failed"
    /\ rec.primary = "execution error"
    /\ rec.delivered = "execution error"

\* C28: the entries retained in the in-memory history have pairwise distinct ids after
\* any sequence of addToHistory and clearHistory calls, also once the store has reached
\* MAX_HISTORY_SIZE and evicted entries, so getHistoryById finds at most one entry.
C28_DistinctIds ==
    \A i \in DOMAIN history : \A j \in DOMAIN history :
        i # j => history[i].id # history[j].id

\* one step of a queryFromQuestion call that records in the in-memory history:
\* nothing is recorded before the outcome is known or after the entry is written, and
\* the entry written is the newest, with the flag and the message of what is delivered
RecordsOnceAsDelivered ==
    /\ rec'.pc = "recording" => history' = history
    /\ rec.pc = "delivered" => history' = history
    /\ (rec.pc = "recording" /\ rec'.pc = "delivered" /\ rec.variant = "memory") =>
          /\ rec'.added = rec.added + 1
          /\ history' # <<>>
          /\ history'[1].seq = rec'.added
          /\ history'[1].success = (rec'.delivered = "result")
          /\ history'[1].error =
                (IF rec'.delivered = "result" THEN NoError ELSE rec'.delivered)
          /\ \A i \in 2..Len(history') : history'[i] = history[i - 1]
          /\ Len(history') \in {Len(history), Len(history) + 1}

\* C29: each queryFromQuestion call appends exactly one history entry, after generation
\* and execution have finished: success is true exactly when the call returns a result
\* and false exactly when it throws, and the entry of a failure carries the message of
\* the error the caller receives.
C29_OneEntryPerCall ==
    [][RecordsOnceAsDelivered]_vars

C29_Witness ==
    /\ rec.pc = "delivered"
    /\ rec.variant = "memory"
    /\ rec.delivered = "execution error"
    /\ Len(history) = MAX_HISTORY_SIZE
    /\ history[1].seq = rec.added
    /\ ~history[1].success
    /\ history[1].error = "execution error"

(***************************************************************************)
(* Claims about the reasons of validateSQL                                 *)
(***************************************************************************)
\* the first stage of the validator that turns s down
FailingStage(s) ==
    IF IsBlank(s) THEN "empty"
    ELSE IF ~BeginsWithAnchor(s) THEN "leading-keyword"
    ELSE IF ContainsBlocked(s) THEN "read-only"
    ELSE IF CommentInjection(s) THEN "comment-injection"
    ELSE IF SchemaEnumeration(s) THEN "schema-enumeration"
    ELSE IF SegmentCount(s) > 1 THEN "single-statement"
    ELSE "none"

\* one rejected statement for each stage
StageExamples ==
    { <<"x">>, <<"S", "E", "L", "E", "C", "T", " ", "a", " ", "d", "r", "o", "p">>, <<"S", "E", "L", "E", "C", "T", " ", "a", " ", ";", "-", "-", " ", "x">>, <<"S", "E", "L", "E", "C", "T", " ", "a", ";", " ", "S", "E", "L", "E", "C", "T", " ", "1">>,
      <<"S", "E", "L", "E", "C", "T", " ", "a", " ", "U", "N", "I", "O", "N", " ", "A", "L", "L", " ", "S", "E", "L", "E", "C", "T", " ", "b", " ", "F", "R", "O", "M", " ", "I", "N", "F", "O", "R", "M", "A", "T", "I", "O", "N", "_", "S", "C", "H", "E", "M", "A", ".", "t", "a", "b", "l", "e", "s">> }

\* C11: every rejection by validateSQL carries a reason that identifies the failing
\* stage: statements that fail at different stages are rejected with different
\* reasons, the multi-statement scenario is reported as a multi-statement rejection,
\* and the statement under validation is left as it was.
C11_ReasonIdentifiesStage ==
    (sanOp = "validateSQL" /\ sanOut.verdict # Accepted) =>
        /\ sanOut.sql = sanIn
        /\ \A t \in StageExamples :
              FailingStage(t) # FailingStage(sanIn) => validateSQL(t) # sanOut.verdict
        /\ sanIn = ScenarioMulti => sanOut.verdict = ErrMultiple

\* the first token of s: the word characters that follow its leading white space
FirstToken(s) ==
    LET t == trim(s)
        n == Cardinality({ i \in 1..Len(t) : \A k \in 1..i : t[k] \in WordChars })
    IN  toUpperCase(SubSeq(t, 1, n))

\* C12: validateSQL accepts a statement only if its first token, compared
\* case-insensitively, equals SELECT or WITH; a longer first word that begins with
\* those letters is rejected.
C12_FirstTokenIsKeyword ==
    (sanOp = "validateSQL" /\ sanOut.verdict = Accepted)
        => FirstToken(sanIn) \in {KwSELECT, KwWITH}

(***************************************************************************)
(* Claims about cleanSQL                                                   *)
(***************************************************************************)
\* the statement S inside a code fence that names the language
FencedSql(S) == <<Backtick, Backtick, Backtick, "s", "q", "l", "\n">> \o S \o <<"\n", Backtick, Backtick, Backtick>>

\* C17: cleanSQL removes only the code-fence markers and quote characters that wrap the
\* response: for every statement S, cleanSQL of S inside ```sql fences is S with every
\* character preserved, followed by ';' (S itself when it already ends with ';').
C17_FencedStatementPreserved ==
    \A S \in CleanStatements :
        (sanOp = "cleanSQL" /\ sanIn = FencedSql(S)) =>
            sanOut.sql = (IF S[Len(S)] = ";" THEN S ELSE S \o <<";">>)

\* C18: for every input, the output of cleanSQL ends with exactly one ';', never none
\* and never two or more, and has no white space after it.
C18_ExactlyOneTerminator ==
    (sanOp \in {"cleanSQL", "generateSQL"}) =>
        LET out == sanOut.sql
        IN  /\ out # <<>>
            /\ out[Len(out)] = ";"
            /\ Len(out) >= 2 => out[Len(out) - 1] # ";"

\* the text holds no code fence
NoFence(s) == \A i \in 1..Len(s) : ~MatchAt(s, i, <<Backtick, Backtick, Backtick>>)

\* C19 as stated: for every statement that has no code fences and already ends with
\* ';', cleanSQL returns the statement unchanged.
C19_CleanIsNoOp ==
    (/\ sanOp = "cleanSQL"
     /\ validateSQL(sanIn) = Accepted
     /\ NoFence(sanIn)
     /\ sanIn[Len(sanIn)] = ";")
        => sanOut.sql = sanIn

\* C19 amended: for every text that has no code fences, ends with ';' and begins with
\* neither white space nor a quote character, cleanSQL returns the text unchanged.
C19_CleanIsNoOpOnTrimmed ==
    (/\ sanOp = "cleanSQL"
     /\ NoFence(sanIn)
     /\ sanIn # <<>>
     /\ sanIn[Len(sanIn)] = ";"
     /\ sanIn[1] \notin SpaceChars \cup {"\"", "'", Backtick})
        => sanOut.sql = sanIn

C19_Witness ==
    /\ sanOp = "cleanSQL"
    /\ sanIn = <<"W", "i", "t", "h", " ", "c", " ", "A", "S", " ", "(", "S", "E", "L", "E", "C", "T", " ", "1", ")", " ", "S", "E", "L", "E", "C", "T", " ", "2", ";">>
    /\ sanOut.sql = sanIn

(***************************************************************************)
(* Claims about the schema-enumeration defense                             *)
(***************************************************************************)
\* UNION, ALL and SELECT follow each other in s, separated by white space, and
\* INFORMATION_SCHEMA occurs later in s, whatever the letter case
CombinesUnionWithCatalog(s) ==
    \E i \in 1..Len(s) :
        /\ MatchAtCI(s, i, KwUNION)
        /\ LET a == SkipSpaces(s, i + 5)
               b == SkipSpaces(s, a + 3)
           IN  /\ a > i + 5 /\ MatchAtCI(s, a, KwALL)
               /\ b > a + 3 /\ MatchAtCI(s, b, KwSELECT)
               /\ \E j \in (b + 6)..Len(s) : MatchAtCI(s, j, KwINFORMATION_SCHEMA)

\* C20: validateSQL rejects every statement that combines UNION ALL SELECT with a later
\* reference to INFORMATION_SCHEMA, whatever the letter case and whatever white space
\* or line breaks separate the two.
C20_EnumerationRejected ==
    (sanOp = "validateSQL" /\ CombinesUnionWithCatalog(sanIn))
        => sanOut.verdict # Accepted
====
